---- MODULE Spec2Model ----
(***************************************************************************)
(* The Fuchsia binding of V8's page-granular virtual memory layer          *)
(* (src/base/platform/platform-fuchsia.cc): the alignment resolver, the    *)
(* permission translator, the placement protocol with its single retry,    *)
(* the root facade (OS::...) and the reservation entity                    *)
(* (AddressSpaceReservation::...), over a model of the kernel's            *)
(* address-space tree.                                                     *)
(*                                                                         *)
(* Addresses and sizes of the address space are counted in units of 1 KiB  *)
(* (2^UnitShift bytes); a page is PageUnits units.  An alignment, which    *)
(* the code takes as a 64-bit size_t and which may be 4 GiB and more, is   *)
(* the set of the positions of its 1 bits.                                 *)
(***************************************************************************)
EXTENDS Integers, Sequences, FiniteSets, TLC

\* ------------------------------------------------------------- bounds

\* Pages of the root address-space object.
RootPages == 2
\* Regions (mappings and child address-space objects) the kernel holds
\* before it answers every further placement with "no memory".
MaxRegions == 2
\* Highest bit position of the alignments the resolver is tried on.
MaxBit == 35

\* ---------------------------------------------------------- constants

\* log2 of AllocatePageSize() and CommitPageSize(): 4 KiB pages.
kPageShift == 12
\* log2 of the unit addresses are counted in: 1 KiB, the smallest alignment
\* class (ZX_VM_ALIGN_1KB).
UnitShift == 10
\* Bit position of the alignment class in zx_vm_option_t.
ZX_VM_ALIGN_BASE == 24
PageUnits == 2 ^ (kPageShift - UnitShift)
NULL == 0
\* Handles of child address-space objects the process may hold: each is a
\* region of the kernel's.
MaxHandles == MaxRegions
\* info.base of the root address-space object, as the kernel reports it.
RootVmarBase == PageUnits
RootSize == RootPages * PageUnits
RootEnd == RootVmarBase + RootSize
ROOT == 0
ZX_HANDLE_INVALID == 0

Max(a, b) == IF a >= b THEN a ELSE b
Min(a, b) == IF a <= b THEN a ELSE b

\* ------------------------------------------------ size_t as a bit set

\* size_t{1} << shift, for shift < 64.
ShiftLeftOne(shift) == {shift}

RECURSIVE SumUnits(_)
\* The value of a size_t none of whose bits lies below UnitShift, in units.
SumUnits(bits) ==
  IF bits = {} THEN 0
  ELSE LET b == CHOOSE x \in bits : TRUE
       IN  2 ^ (b - UnitShift) + SumUnits(bits \ {b})

\* value % 2^k = 0
MultipleOfPow2(bits, k) == \A b \in bits : b >= k

\* ------------------------------------------------ permission translator

MemoryPermission ==
  {"kNoAccess", "kNoAccessWillJitLater", "kRead", "kReadWrite",
   "kReadWriteExecute", "kReadExecute"}

GetProtectionFromMemoryPermission(access) ==
  CASE access = "kNoAccess" -> {}
    [] access = "kNoAccessWillJitLater" -> {}
    [] access = "kRead" -> {"R"}
    [] access = "kReadWrite" -> {"R", "W"}
    [] access = "kReadWriteExecute" -> {"R", "W", "X"}
    [] access = "kReadExecute" -> {"R", "X"}

\* ------------------------------------------------ alignment resolver

RECURSIVE AlignmentLog2From(_, _, _)
\* The loop of GetAlignmentOptionFromAlignment, from `shift` on.
AlignmentLog2From(alignment, shift, last) ==
  IF shift > last THEN 0
  ELSE IF alignment = ShiftLeftOne(shift) THEN shift
  ELSE AlignmentLog2From(alignment, shift + 1, last)

\* The loop stopping one class short: 4 GiB gets no class.
GetAlignmentOptionFromAlignment_Short(alignment) ==
  AlignmentLog2From(alignment, 10, 31) * 2 ^ ZX_VM_ALIGN_BASE

\* alignment_log2 << ZX_VM_ALIGN_BASE; at most 32 << 24, which a 32-bit
\* zx_vm_option_t holds.
GetAlignmentOptionFromAlignment(alignment) ==
  AlignmentLog2From(alignment, 10, 32) * 2 ^ ZX_VM_ALIGN_BASE

\* ------------------------------------------------ the kernel's address space
\*
\* A region is a mapping or a child address-space object (a vmar) inside a
\* parent vmar: [parent, kind, base, size, perm, committed, handle], where
\* handle is the vmar's handle (0 for a mapping) and parent the handle of the
\* vmar that holds it (ROOT for the root).  Every kernel call may be refused
\* (no memory, policy): the refusal leaves the address space as it was.

Mapping(v, addr, size, perm) ==
  [parent |-> v, kind |-> "mapping", base |-> addr, size |-> size,
   perm |-> perm, committed |-> TRUE, handle |-> 0]

ChildVmar(v, addr, size, h) ==
  [parent |-> v, kind |-> "vmar", base |-> addr, size |-> size,
   perm |-> {}, committed |-> FALSE, handle |-> h]

VmarLive(regs, v) ==
  v = ROOT \/ \E r \in regs : r.kind = "vmar" /\ r.handle = v

VmarRegion(regs, v) == CHOOSE r \in regs : r.kind = "vmar" /\ r.handle = v

VmarBaseOf(regs, v) == IF v = ROOT THEN RootVmarBase ELSE VmarRegion(regs, v).base

VmarSizeOf(regs, v) == IF v = ROOT THEN RootSize ELSE VmarRegion(regs, v).size

Overlaps(b1, s1, b2, s2) == b1 < b2 + s2 /\ b2 < b1 + s1

\* The alignment, in units, an alignment class asks for.
AlignUnitsOf(align) == 2 ^ ((align \div 2 ^ ZX_VM_ALIGN_BASE) - UnitShift)

\* Whether the kernel can place `size` units at `addr` inside vmar v.
Fits(regs, v, addr, size, align) ==
  /\ VmarLive(regs, v)
  /\ Cardinality(regs) < MaxRegions
  /\ size > 0
  /\ size % PageUnits = 0
  /\ addr % PageUnits = 0
  /\ addr % AlignUnitsOf(align) = 0
  /\ addr >= VmarBaseOf(regs, v)
  /\ addr + size <= VmarBaseOf(regs, v) + VmarSizeOf(regs, v)
  /\ \A r \in regs : r.parent = v => ~Overlaps(addr, size, r.base, r.size)

\* The addresses a placement request may end at: the one at `offset` from the
\* vmar's base under ZX_VM_SPECIFIC, any that fits without it.  A negative
\* offset stands for the huge value the unsigned subtraction wraps to.
PlacementAddresses(regs, v, options, offset, size) ==
  IF ~VmarLive(regs, v) THEN {}
  ELSE IF options.specific
  THEN {a \in {VmarBaseOf(regs, v) + offset} :
          offset >= 0 /\ Fits(regs, v, a, size, options.align)}
  ELSE {a \in VmarBaseOf(regs, v) .. (VmarBaseOf(regs, v) + VmarSizeOf(regs, v)) :
          Fits(regs, v, a, size, options.align)}

\* zx::vmo::create
VmoCreate(size) == {"OK", "ERR"}

\* zx::vmo::replace_as_executable.  With a valid resource the kernel checks
\* the resource; with ZX_HANDLE_INVALID it falls back to the job's policy
\* (ambient mark-vmo-exec), so either answer is possible in both cases.
VmoReplaceAsExecutable(vmex) == {"OK", "ERR"}

\* zx::vmar::map
VmarMap(regs, v, options, offset, size) ==
  {[status |-> "ERR", addr |-> NULL, regs |-> regs]} \cup
  {[status |-> "OK", addr |-> a,
    regs |-> regs \cup {Mapping(v, a, size, options.perm)}] :
     a \in PlacementAddresses(regs, v, options, offset, size)}

\* zx::vmar::allocate; h is the handle the child gets (0: none is left).
VmarAllocate(regs, v, options, offset, size, h) ==
  {[status |-> "ERR", addr |-> NULL, handle |-> 0, regs |-> regs]} \cup
  {[status |-> "OK", addr |-> a, handle |-> h,
    regs |-> regs \cup {ChildVmar(v, a, size, h)}] :
     a \in IF h = 0 THEN {}
           ELSE PlacementAddresses(regs, v, options, offset, size)}

\* Whether [addr, addr+size) is a page-aligned range fully covered by
\* mappings held directly by vmar v.
Covered(regs, v, addr, size) ==
  /\ VmarLive(regs, v)
  /\ size > 0
  /\ size % PageUnits = 0
  /\ addr % PageUnits = 0
  /\ \A a \in addr .. (addr + size - 1) :
       \E m \in regs : /\ m.parent = v
                       /\ m.kind = "mapping"
                       /\ m.base <= a
                       /\ a < m.base + m.size

\* The parts of mapping m outside [lo, hi).
Outside(m, lo, hi) ==
  (IF m.base < lo THEN {[m EXCEPT !.size = lo - m.base]} ELSE {}) \cup
  (IF m.base + m.size > hi
   THEN {[m EXCEPT !.base = hi, !.size = m.base + m.size - hi]} ELSE {})

\* The part of mapping m inside [lo, hi).
Inside(m, lo, hi) ==
  [m EXCEPT !.base = Max(m.base, lo),
            !.size = Min(m.base + m.size, hi) - Max(m.base, lo)]

Touched(regs, v, lo, hi) ==
  {m \in regs : /\ m.parent = v
                /\ m.kind = "mapping"
                /\ Overlaps(m.base, m.size, lo, hi - lo)}

\* zx::vmar::protect
VmarProtect(regs, v, prot, addr, size) ==
  {[status |-> "ERR", regs |-> regs]} \cup
  (IF Covered(regs, v, addr, size)
   THEN {[status |-> "OK",
          regs |->
            (regs \ Touched(regs, v, addr, addr + size))
            \cup UNION {Outside(m, addr, addr + size) :
                          m \in Touched(regs, v, addr, addr + size)}
            \cup {[Inside(m, addr, addr + size) EXCEPT !.perm = prot] :
                    m \in Touched(regs, v, addr, addr + size)}]}
   ELSE {})

\* zx::vmar::op_range(ZX_VMO_OP_DECOMMIT)
VmarOpRangeDecommit(regs, v, addr, size) ==
  {[status |-> "ERR", regs |-> regs]} \cup
  (IF Covered(regs, v, addr, size)
   THEN {[status |-> "OK",
          regs |->
            (regs \ Touched(regs, v, addr, addr + size))
            \cup UNION {Outside(m, addr, addr + size) :
                          m \in Touched(regs, v, addr, addr + size)}
            \cup {[Inside(m, addr, addr + size) EXCEPT !.committed = FALSE] :
                    m \in Touched(regs, v, addr, addr + size)}]}
   ELSE {})

RECURSIVE Descendants(_, _, _)
\* The regions below vmar v, to depth n.
Descendants(regs, v, n) ==
  IF n = 0 THEN {}
  ELSE LET kids == {r \in regs : r.parent = v}
       IN  kids \cup UNION {Descendants(regs, k.handle, n - 1) :
                              k \in {r \in kids : r.kind = "vmar"}}

Below(regs, v) == Descendants(regs, v, Cardinality(regs))

\* zx::vmar::unmap: removes the mappings and the child vmars of the range.
VmarUnmap(regs, v, addr, size) ==
  {[status |-> "ERR", regs |-> regs]} \cup
  (IF /\ VmarLive(regs, v)
      /\ size > 0
      /\ size % PageUnits = 0
      /\ addr % PageUnits = 0
      /\ addr >= VmarBaseOf(regs, v)
      /\ addr + size <= VmarBaseOf(regs, v) + VmarSizeOf(regs, v)
      /\ \A r \in regs :
           (r.parent = v /\ r.kind = "vmar" /\ Overlaps(r.base, r.size, addr, size))
           => (r.base >= addr /\ r.base + r.size <= addr + size)
   THEN LET gone == {r \in regs : /\ r.parent = v
                                  /\ r.kind = "vmar"
                                  /\ Overlaps(r.base, r.size, addr, size)}
        IN {[status |-> "OK",
             regs |->
               (((regs \ Touched(regs, v, addr, addr + size)) \ gone)
                 \ UNION {Below(regs, g.handle) : g \in gone})
               \cup UNION {Outside(m, addr, addr + size) :
                             m \in Touched(regs, v, addr, addr + size)}]}
   ELSE {})

\* zx::vmar::destroy
VmarDestroy(regs, v) ==
  IF v # ROOT /\ VmarLive(regs, v)
  THEN {[status |-> "OK",
         regs |-> (regs \ {VmarRegion(regs, v)}) \ Below(regs, v)]}
  ELSE {[status |-> "ERR", regs |-> regs]}

\* ------------------------------------------------ checks and preconditions

\* Whether a failed DCHECK stops the process (src/base/logging.h is not part
\* of the sources; the specification calls precondition violations fatal,
\* checked assertions).
DCHECK_IS_ON == TRUE

\* AddressSpaceReservation::Contains (src/base/platform/platform.h): the
\* region lies fully inside the reservation r.
Contains(r, address, size) ==
  address >= r.base /\ address + size <= r.base + r.size

\* The DCHECKs that open AllocateInternal and
\* CreateAddressSpaceReservationInternal.  The alignments the actions pass are
\* not 0 (where address % alignment is undefined) and are whole units.
PlacementPreconditions(address, placement, size, alignment) ==
  /\ size % PageUnits = 0
  /\ MultipleOfPow2(alignment, kPageShift)
  /\ address % SumUnits(alignment) = 0
  /\ (placement # "kAnywhere" => address # NULL)

\* The DCHECKs that open FreeInternal, SetPermissionsInternal and
\* DiscardSystemPagesInternal.
RangePreconditions(address, size) ==
  address % PageUnits = 0 /\ size % PageUnits = 0

\* ------------------------------------------------ the placement protocol

\* A retry that does not look at the placement mode.
ShouldRetry_AnyMode(status, placement) == status # "OK"

\* A retry under kUseHint whatever the first request's status.
ShouldRetry_AfterSuccess(status, placement) == placement = "kUseHint"

\* No retry at all.
ShouldRetry_Never(status, placement) == FALSE

\* status != ZX_OK && placement == PlacementMode::kUseHint
ShouldRetry(status, placement) == status # "OK" /\ placement = "kUseHint"

\* The offset taken to be the address itself.
VmarOffset_Absolute(address, vmar_base) == address

\* vmar_offset = target_addr - base
VmarOffset(address, vmar_base) == address - vmar_base

\* options &= ~(ZX_VM_SPECIFIC)
WithoutSpecific(options) == [options EXCEPT !.specific = FALSE]

\* The upgrade attempted only for an executable access level.
ReplaceAsExecutableNeeded_IfExecutable(access) ==
  "X" \in GetProtectionFromMemoryPermission(access)

\* "Always call zx_vmo_replace_as_executable()".
ReplaceAsExecutableNeeded(access) == TRUE

\* One placement request, as logged.
Request(call, options, offset, size, o) ==
  [call |-> call, perm |-> options.perm, align |-> options.align,
   specific |-> options.specific, offset |-> offset, size |-> size,
   status |-> o.status, addr |-> o.addr]

\* What a call of one of the two primitives ends as.
Ended(outcome, status, addr, handle, created, upgrade, reqs, regs) ==
  [outcome |-> outcome, status |-> status, addr |-> addr, handle |-> handle,
   created |-> created, upgrade |-> upgrade, reqs |-> reqs, regs |-> regs]

\* The outcomes of AllocateInternal on address space `regs`: addr is the
\* pointer returned (NULL: nullptr).
AllocateInternal(regs, vmex, v, vmar_base, address, placement, size, alignment, access) ==
  LET alignment_option == GetAlignmentOptionFromAlignment(alignment)
      specific == placement # "kAnywhere"
      vmar_offset == IF specific THEN VmarOffset(address, vmar_base) ELSE 0
      options == [perm |-> GetProtectionFromMemoryPermission(access),
                  align |-> alignment_option, specific |-> specific]
      Place(u) ==
        IF alignment_option = 0
        THEN {Ended("aborted", "ERR", NULL, 0, "OK", u, <<>>, regs)}
        ELSE IF specific /\ DCHECK_IS_ON /\ address < vmar_base
        THEN {Ended("aborted", "ERR", NULL, 0, "OK", u, <<>>, regs)}
        ELSE UNION {
          IF ShouldRetry(o1.status, placement)
          THEN {Ended("returned", o2.status,
                      IF o2.status = "OK" THEN o2.addr ELSE NULL, 0, "OK", u,
                      <<Request("map", options, vmar_offset, size, o1),
                        Request("map", WithoutSpecific(options), 0, size, o2)>>,
                      o2.regs) :
                  o2 \in VmarMap(o1.regs, v, WithoutSpecific(options), 0, size)}
          ELSE {Ended("returned", o1.status,
                      IF o1.status = "OK" THEN o1.addr ELSE NULL, 0, "OK", u,
                      <<Request("map", options, vmar_offset, size, o1)>>,
                      o1.regs)} :
          o1 \in VmarMap(regs, v, options, vmar_offset, size)}
  IN
  IF DCHECK_IS_ON /\ ~PlacementPreconditions(address, placement, size, alignment)
  THEN {Ended("aborted", "ERR", NULL, 0, "none", "none", <<>>, regs)}
  ELSE UNION {
    IF c # "OK"
    THEN {Ended("returned", "ERR", NULL, 0, c, "none", <<>>, regs)}
    ELSE IF ~ReplaceAsExecutableNeeded(access)
    THEN Place("none")
    ELSE UNION {
      IF u # "OK"
      THEN {Ended("returned", "ERR", NULL, 0, c, u, <<>>, regs)}
      ELSE Place(u) :
      u \in VmoReplaceAsExecutable(vmex)} :
    c \in VmoCreate(size)}

\* The outcomes of CreateAddressSpaceReservationInternal: status is the
\* zx_status_t returned, addr and handle the child's (*child_addr, *child).
CreateAddressSpaceReservationInternal(regs, v, vmar_base, address, placement, size, alignment, max_permission, h) ==
  LET alignment_option == GetAlignmentOptionFromAlignment(alignment)
      specific == placement # "kAnywhere"
      vmar_offset == IF specific THEN VmarOffset(address, vmar_base) ELSE 0
      options == [perm |-> {"CAN_MAP_READ", "CAN_MAP_WRITE", "CAN_MAP_EXECUTE",
                            "CAN_MAP_SPECIFIC"},
                  align |-> alignment_option, specific |-> specific]
  IN
  IF DCHECK_IS_ON /\ ~PlacementPreconditions(address, placement, size, alignment)
  THEN {Ended("aborted", "ERR", NULL, 0, "none", "none", <<>>, regs)}
  ELSE IF alignment_option = 0
  THEN {Ended("aborted", "ERR", NULL, 0, "none", "none", <<>>, regs)}
  ELSE IF specific /\ DCHECK_IS_ON /\ address < vmar_base
  THEN {Ended("aborted", "ERR", NULL, 0, "none", "none", <<>>, regs)}
  ELSE UNION {
    IF ShouldRetry(o1.status, placement)
    THEN {Ended("returned", o2.status, o2.addr, o2.handle, "none", "none",
                <<Request("allocate", options, vmar_offset, size, o1),
                  Request("allocate", WithoutSpecific(options), 0, size, o2)>>,
                o2.regs) :
            o2 \in VmarAllocate(o1.regs, v, WithoutSpecific(options), 0, size, h)}
    ELSE {Ended("returned", o1.status, o1.addr, o1.handle, "none", "none",
                <<Request("allocate", options, vmar_offset, size, o1)>>,
                o1.regs)} :
    o1 \in VmarAllocate(regs, v, options, vmar_offset, size, h)}

\* The outcomes of FreeInternal.
FreeInternal(regs, v, address, size) ==
  IF DCHECK_IS_ON /\ ~RangePreconditions(address, size)
  THEN {Ended("aborted", "ERR", NULL, 0, "none", "none", <<>>, regs)}
  ELSE {Ended("returned", o.status, NULL, 0, "none", "none",
              <<[call |-> "unmap", perm |-> {}, align |-> 0, specific |-> FALSE,
                 offset |-> address, size |-> size, status |-> o.status,
                 addr |-> address]>>, o.regs) :
          o \in VmarUnmap(regs, v, address, size)}

\* The outcomes of SetPermissionsInternal.
SetPermissionsInternal(regs, v, address, size, access) ==
  IF DCHECK_IS_ON /\ ~RangePreconditions(address, size)
  THEN {Ended("aborted", "ERR", NULL, 0, "none", "none", <<>>, regs)}
  ELSE {Ended("returned", o.status, NULL, 0, "none", "none",
              <<[call |-> "protect",
                 perm |-> GetProtectionFromMemoryPermission(access),
                 align |-> 0, specific |-> FALSE, offset |-> address,
                 size |-> size, status |-> o.status, addr |-> address]>>,
              o.regs) :
          o \in VmarProtect(regs, v, GetProtectionFromMemoryPermission(access),
                            address, size)}

\* The outcomes of DiscardSystemPagesInternal.
DiscardSystemPagesInternal(regs, v, address, size) ==
  IF DCHECK_IS_ON /\ ~RangePreconditions(address, size)
  THEN {Ended("aborted", "ERR", NULL, 0, "none", "none", <<>>, regs)}
  ELSE {Ended("returned", o.status, NULL, 0, "none", "none",
              <<[call |-> "op_range", perm |-> {}, align |-> 0,
                 specific |-> FALSE, offset |-> address, size |-> size,
                 status |-> o.status, addr |-> address]>>, o.regs) :
          o \in VmarOpRangeDecommit(regs, v, address, size)}

\* SetPermissions(...) & DiscardSystemPages(...): both steps always run.
DecommitPages_NoShortCircuit(regs, v, address, size) ==
  UNION {
    IF p.outcome = "aborted" THEN {p}
    ELSE {[d EXCEPT !.status = IF p.status = "OK" THEN d.status ELSE "ERR",
                    !.reqs = p.reqs \o d.reqs] :
            d \in DiscardSystemPagesInternal(p.regs, v, address, size)} :
    p \in SetPermissionsInternal(regs, v, address, size, "kNoAccess")}

\* SetPermissions(address, size, kNoAccess) && DiscardSystemPages(address,
\* size), of OS::DecommitPages and AddressSpaceReservation::DecommitPages.
DecommitPages(regs, v, address, size) ==
  UNION {
    IF p.outcome = "aborted" \/ p.status # "OK" THEN {p}
    ELSE {[d EXCEPT !.reqs = p.reqs \o d.reqs] :
            d \in DiscardSystemPagesInternal(p.regs, v, address, size)} :
    p \in SetPermissionsInternal(regs, v, address, size, "kNoAccess")}

\* ------------------------------------------------ the entry points

\* The outcome of a call stopped by a failed check before it did anything.
Stopped(regs) == Ended("aborted", "ERR", NULL, 0, "none", "none", <<>>, regs)

\* OS::AllocatePageSize() as a size_t.
AllocatePageSize == {kPageShift}

\* OS::Allocate
Allocate(regs, vmex, root_base, address, size, alignment, access) ==
  AllocateInternal(regs, vmex, ROOT, root_base, address,
                   IF address # NULL THEN "kUseHint" ELSE "kAnywhere",
                   size, alignment, access)

\* OS::Free
Free(regs, address, size) == FreeInternal(regs, ROOT, address, size)

\* OS::SetPermissions
SetPermissions(regs, address, size, access) ==
  SetPermissionsInternal(regs, ROOT, address, size, access)

\* OS::DiscardSystemPages
DiscardSystemPages(regs, address, size) ==
  DiscardSystemPagesInternal(regs, ROOT, address, size)

\* OS::CreateAddressSpaceReservation; handle and addr are those of the
\* reservation returned, status "ERR" stands for the empty Optional.
CreateAddressSpaceReservation(regs, root_base, hint, size, alignment, max_permission, h) ==
  IF DCHECK_IS_ON /\ hint % SumUnits(alignment) # 0
  THEN {Stopped(regs)}
  ELSE CreateAddressSpaceReservationInternal(
         regs, ROOT, root_base, hint,
         IF hint # NULL THEN "kUseHint" ELSE "kAnywhere",
         size, alignment, max_permission, h)

\* OS::FreeAddressSpaceReservation
FreeAddressSpaceReservation(regs, r) ==
  {Ended("returned", o.status, NULL, 0, "none", "none", <<>>, o.regs) :
     o \in VmarDestroy(regs, r.vmar)}

\* CreateSubReservation without its containment check.
CreateSubReservation_Unchecked(regs, r, address, size, max_permission, h) ==
  CreateAddressSpaceReservationInternal(regs, r.vmar, r.base, address, "kFixed",
                                        size, AllocatePageSize, max_permission, h)

\* AddressSpaceReservation::CreateSubReservation
CreateSubReservation(regs, r, address, size, max_permission, h) ==
  IF DCHECK_IS_ON /\ ~Contains(r, address, size)
  THEN {Stopped(regs)}
  ELSE {IF o.outcome = "returned" /\ o.status = "OK"
           /\ DCHECK_IS_ON /\ o.addr # address
        THEN [o EXCEPT !.outcome = "aborted"]
        ELSE o :
          o \in CreateAddressSpaceReservationInternal(
                  regs, r.vmar, r.base, address, "kFixed", size,
                  AllocatePageSize, max_permission, h)}

\* AddressSpaceReservation::Allocate; status "OK" stands for true.
ReservationAllocate(regs, vmex, r, address, size, access) ==
  IF DCHECK_IS_ON /\ ~Contains(r, address, size)
  THEN {Stopped(regs)}
  ELSE {IF o.outcome = "returned" /\ o.addr # NULL
           /\ DCHECK_IS_ON /\ o.addr # address
        THEN [o EXCEPT !.outcome = "aborted"]
        ELSE o :
          o \in AllocateInternal(regs, vmex, r.vmar, r.base, address, "kFixed",
                                 size, AllocatePageSize, access)}

\* AddressSpaceReservation::Free
ReservationFree(regs, r, address, size) ==
  IF DCHECK_IS_ON /\ ~Contains(r, address, size)
  THEN {Stopped(regs)}
  ELSE FreeInternal(regs, r.vmar, address, size)

\* AddressSpaceReservation::SetPermissions
ReservationSetPermissions(regs, r, address, size, access) ==
  IF DCHECK_IS_ON /\ ~Contains(r, address, size)
  THEN {Stopped(regs)}
  ELSE SetPermissionsInternal(regs, r.vmar, address, size, access)

\* AddressSpaceReservation::DiscardSystemPages
ReservationDiscardSystemPages(regs, r, address, size) ==
  IF DCHECK_IS_ON /\ ~Contains(r, address, size)
  THEN {Stopped(regs)}
  ELSE DiscardSystemPagesInternal(regs, r.vmar, address, size)

\* AddressSpaceReservation::DecommitPages
ReservationDecommitPages(regs, r, address, size) ==
  IF DCHECK_IS_ON /\ ~Contains(r, address, size)
  THEN {Stopped(regs)}
  ELSE DecommitPages(regs, r.vmar, address, size)

\* SetVmexResource without the check that no capability is held yet.
SetVmexResource_Unchecked(vmex, n) ==
  {[outcome |-> "aborted", vmex |-> vmex, acquired |-> n],
   [outcome |-> "returned", vmex |-> n + 1, acquired |-> n + 1]}

\* SetVmexResource: the capability service hands out a handle or fails (a
\* failed DCHECK); n counts the capabilities acquired so far, and the handle
\* acquired is numbered n + 1.
SetVmexResource(vmex, n) ==
  IF DCHECK_IS_ON /\ vmex # ZX_HANDLE_INVALID
  THEN {[outcome |-> "aborted", vmex |-> vmex, acquired |-> n]}
  ELSE {[outcome |-> "aborted", vmex |-> vmex, acquired |-> n],
        [outcome |-> "returned", vmex |-> n + 1, acquired |-> n + 1]}

\* ------------------------------------------------ the state

VARIABLES
  g_vmex_resource,    \* the executable capability's handle, or ZX_HANDLE_INVALID
  g_root_vmar_base,   \* the root vmar's base, NULL before OS::Initialize
  use_vmex_resource,  \* whether the build defines V8_USE_VMEX_RESOURCE
  acquired,           \* capabilities the capability service has handed out
  regions,            \* the kernel's address space
  reservations,       \* the AddressSpaceReservation objects the callers hold
  proc,               \* "running", or "aborted" by a failed check
  last,               \* the call that just ended: arguments, requests, result
  resolver            \* the alignment resolver's inputs and outputs

vars ==
  <<g_vmex_resource, g_root_vmar_base, use_vmex_resource, acquired, regions,
    reservations, proc, last, resolver>>

NoCall ==
  [op |-> "none", vmar |-> ROOT, base |-> NULL, address |-> NULL, size |-> 0,
   alignment |-> {}, placement |-> "none", access |-> "none",
   created |-> "none", upgrade |-> "none", vmex |-> ZX_HANDLE_INVALID,
   reqs |-> <<>>, outcome |-> "none", ok |-> FALSE, addr |-> NULL,
   handle |-> 0, limit |-> 0]

NoResolver == [a |-> {}, b |-> {}, option_a |-> 0, option_b |-> 0, done |-> FALSE]

\* The record of a call of `op` that ended as o.
Called(op, v, base, address, size, o) ==
  [NoCall EXCEPT !.op = op, !.vmar = v, !.base = base, !.address = address,
                 !.size = size, !.created = o.created, !.upgrade = o.upgrade,
                 !.reqs = o.reqs, !.outcome = o.outcome,
                 !.ok = (o.outcome = "returned" /\ o.status = "OK"),
                 !.addr = o.addr, !.handle = o.handle]

\* The record of a call of which only the result is kept.
Answered(op, o) ==
  [NoCall EXCEPT !.op = op, !.outcome = o.outcome,
                 !.ok = (o.outcome = "returned" /\ o.status = "OK")]

\* The state after a call that ended as o, is recorded as rec and leaves the
\* callers with the reservation objects res.  A process stopped by a failed
\* check loses its address space; the callers drop the object of a
\* reservation whose vmar went with its parent or with an unmapped range.
Finish(o, rec, res) ==
  /\ regions' = IF o.outcome = "aborted" THEN {} ELSE o.regs
  /\ reservations' = IF o.outcome = "aborted" THEN {}
                     ELSE {r \in res : VmarLive(o.regs, r.vmar)}
  /\ proc' = IF o.outcome = "aborted" THEN "aborted" ELSE "running"
  /\ last' = rec
  /\ UNCHANGED <<g_vmex_resource, g_root_vmar_base, use_vmex_resource,
                 acquired, resolver>>

\* The process runs and its last call has been taken by the caller.
Idle == proc = "running" /\ last = NoCall

\* Idle after OS::Initialize, which the integrator runs before any other call.
Ready == Idle /\ g_root_vmar_base # NULL

\* The handle the kernel gives the next child vmar (0: none is left).
FreshHandle ==
  LET used == {r.vmar : r \in reservations} \cup
              {r.handle : r \in {x \in regions : x.kind = "vmar"}}
      free == (1 .. MaxHandles) \ used
  IN  IF free = {} THEN 0 ELSE CHOOSE h \in free : \A g \in free : h <= g

\* ------------------------------------------------ the inputs

\* The page-aligned addresses from the root's base to its end.
PageAddresses == {a \in RootVmarBase .. RootEnd : a % PageUnits = 0}

\* 8 KiB, 12 KiB (no power of two), 8 GiB (beyond 4 GiB), 1 KiB (no whole page).
OddAlignments == {{13}, {12, 13}, {33}, {10}}

\* Arguments of OS::Allocate: a page at every address, every access level for
\* nothing and for the whole root, the odd alignments, a size of no whole page.
RootInputs ==
  [address : {NULL} \cup PageAddresses, size : {PageUnits},
   alignment : {AllocatePageSize}, access : {"kReadWrite"}]
  \cup [address : {NULL}, size : {0, RootSize},
        alignment : {AllocatePageSize}, access : MemoryPermission]
  \cup [address : {NULL, 2 * PageUnits}, size : {PageUnits},
        alignment : OddAlignments, access : {"kReadWrite"}]
  \cup [address : {NULL}, size : {PageUnits + 1},
        alignment : {AllocatePageSize}, access : {"kReadWrite"}]

\* Arguments of OS::CreateAddressSpaceReservation.
ReserveInputs ==
  [address : {NULL} \cup PageAddresses, size : {PageUnits, RootSize},
   alignment : {AllocatePageSize}]
  \cup [address : {NULL}, size : {0, PageUnits + 1},
        alignment : {AllocatePageSize}]
  \cup [address : {NULL, 2 * PageUnits}, size : {PageUnits},
        alignment : OddAlignments]

\* Arguments of the range operations of the root facade.
RootRanges == [address : PageAddresses \cup {RootVmarBase + 1},
               size : {PageUnits, RootSize}]

\* The access levels handed to SetPermissions.
ProtectInputs == {"kNoAccess", "kRead"}

\* Addresses and sizes handed to reservation r: inside it, and one unit or one
\* page beyond it at either end.
AddressesFor(r) ==
  {r.base - 1, r.base - PageUnits} \cup
  {a \in r.base .. (r.base + r.size) : a % PageUnits = 0}

SizesFor(r) == {0, PageUnits, r.size, r.size + 1}

\* The access levels handed to AddressSpaceReservation::Allocate: every one
\* for the whole reservation, ReadWrite for a part of it.
AccessesFor(r, address, size) ==
  IF address = r.base /\ size = r.size THEN MemoryPermission
  ELSE {"kReadWrite"}

\* ------------------------------------------------ the actions

Init ==
  /\ g_vmex_resource = ZX_HANDLE_INVALID
  /\ g_root_vmar_base = NULL
  /\ use_vmex_resource \in BOOLEAN
  /\ acquired = 0
  /\ regions = {}
  /\ reservations = {}
  /\ proc = "running"
  /\ last = NoCall
  /\ resolver = NoResolver

\* OS::Initialize: get_info of the root vmar may fail (CHECK_EQ stops the
\* process); the base is stored before SetVmexResource runs.
Initialize ==
  /\ Idle
  /\ \E status \in {"OK", "ERR"} :
       IF status # "OK"
       THEN /\ proc' = "aborted"
            /\ last' = [NoCall EXCEPT !.op = "Initialize", !.outcome = "aborted"]
            /\ regions' = {}
            /\ reservations' = {}
            /\ UNCHANGED <<g_vmex_resource, g_root_vmar_base, acquired>>
       ELSE /\ g_root_vmar_base' = RootVmarBase
            /\ \E o \in IF use_vmex_resource
                        THEN SetVmexResource(g_vmex_resource, acquired)
                        ELSE {[outcome |-> "returned", vmex |-> g_vmex_resource,
                               acquired |-> acquired]} :
                 /\ g_vmex_resource' = o.vmex
                 /\ acquired' = o.acquired
                 /\ proc' = IF o.outcome = "aborted" THEN "aborted" ELSE "running"
                 /\ regions' = IF o.outcome = "aborted" THEN {} ELSE regions
                 /\ reservations' = IF o.outcome = "aborted" THEN {} ELSE reservations
                 /\ last' = [NoCall EXCEPT !.op = "Initialize",
                                           !.outcome = o.outcome,
                                           !.ok = (o.outcome = "returned")]
  /\ UNCHANGED <<use_vmex_resource, resolver>>

\* The caller takes the result of the call that just ended.
Return ==
  /\ proc = "running"
  /\ last # NoCall
  /\ last' = NoCall
  /\ UNCHANGED <<g_vmex_resource, g_root_vmar_base, use_vmex_resource,
                 acquired, regions, reservations, proc, resolver>>

OS_Allocate ==
  /\ Ready
  /\ \E in \in RootInputs :
       \E o \in Allocate(regions, g_vmex_resource, g_root_vmar_base, in.address,
                         in.size, in.alignment, in.access) :
         Finish(o, [Called("Allocate", ROOT, g_root_vmar_base, in.address, in.size, o)
                      EXCEPT !.alignment = in.alignment,
                             !.placement = IF in.address # NULL THEN "kUseHint"
                                           ELSE "kAnywhere",
                             !.access = in.access, !.vmex = g_vmex_resource,
                             !.ok = (o.outcome = "returned" /\ o.addr # NULL)],
                reservations)

\* OS::Free, and OS::Release, which only calls it.
OS_Free ==
  /\ Ready
  /\ \E in \in RootRanges :
       \E o \in Free(regions, in.address, in.size) :
         Finish(o, Answered("Free", o), reservations)

OS_SetPermissions ==
  /\ Ready
  /\ \E in \in RootRanges, access \in ProtectInputs :
       \E o \in SetPermissions(regions, in.address, in.size, access) :
         Finish(o, Answered("SetPermissions", o), reservations)

OS_DiscardSystemPages ==
  /\ Ready
  /\ \E in \in RootRanges :
       \E o \in DiscardSystemPages(regions, in.address, in.size) :
         Finish(o, Answered("DiscardSystemPages", o), reservations)

OS_DecommitPages ==
  /\ Ready
  /\ \E in \in RootRanges :
       \E o \in DecommitPages(regions, ROOT, in.address, in.size) :
         Finish(o, Called("DecommitPages", ROOT, g_root_vmar_base, in.address,
                          in.size, o), reservations)

OS_CreateAddressSpaceReservation ==
  /\ Ready
  /\ \E in \in ReserveInputs :
       \E o \in CreateAddressSpaceReservation(
                  regions, g_root_vmar_base, in.address, in.size, in.alignment,
                  "kNoAccess", FreshHandle) :
         Finish(o, [Called("CreateAddressSpaceReservation", ROOT,
                           g_root_vmar_base, in.address, in.size, o)
                      EXCEPT !.alignment = in.alignment,
                             !.placement = IF in.address # NULL THEN "kUseHint"
                                           ELSE "kAnywhere"],
                IF o.status = "OK"
                THEN reservations \cup
                       {[base |-> o.addr, size |-> in.size, vmar |-> o.handle]}
                ELSE reservations)

\* The reservation is passed by value and its handle closed: the caller's
\* object is gone whatever destroy answers.
OS_FreeAddressSpaceReservation ==
  /\ Ready
  /\ \E r \in reservations :
       \E o \in FreeAddressSpaceReservation(regions, r) :
         Finish(o, Answered("FreeAddressSpaceReservation", o), reservations \ {r})

ASR_CreateSubReservation ==
  /\ Ready
  /\ \E r \in reservations :
       \E address \in AddressesFor(r), size \in SizesFor(r) :
         \E o \in CreateSubReservation(regions, r, address, size,
                                       "kReadWriteExecute", FreshHandle) :
           Finish(o, [Called("CreateSubReservation", r.vmar, r.base, address, size, o)
                        EXCEPT !.alignment = AllocatePageSize,
                               !.placement = "kFixed", !.limit = r.size],
                  IF o.status = "OK"
                  THEN reservations \cup
                         {[base |-> o.addr, size |-> size, vmar |-> o.handle]}
                  ELSE reservations)

\* AddressSpaceReservation::FreeSubReservation calls
\* OS::FreeAddressSpaceReservation.
ASR_FreeSubReservation ==
  /\ Ready
  /\ \E parent \in reservations, r \in reservations :
       /\ r # parent
       /\ \E o \in FreeAddressSpaceReservation(regions, r) :
            Finish(o, Answered("FreeSubReservation", o), reservations \ {r})

ASR_Allocate ==
  /\ Ready
  /\ \E r \in reservations :
       \E address \in AddressesFor(r), size \in SizesFor(r) :
         \E access \in AccessesFor(r, address, size) :
           \E o \in ReservationAllocate(regions, g_vmex_resource, r, address,
                                        size, access) :
             Finish(o, [Called("ReservationAllocate", r.vmar, r.base, address, size, o)
                          EXCEPT !.alignment = AllocatePageSize,
                                 !.placement = "kFixed", !.access = access,
                                 !.limit = r.size,
                                 !.vmex = g_vmex_resource,
                                 !.ok = (o.outcome = "returned" /\ o.addr # NULL)],
                    reservations)

ASR_Free ==
  /\ Ready
  /\ \E r \in reservations :
       \E address \in AddressesFor(r), size \in SizesFor(r) :
         \E o \in ReservationFree(regions, r, address, size) :
           Finish(o, Answered("ReservationFree", o), reservations)

ASR_SetPermissions ==
  /\ Ready
  /\ \E r \in reservations :
       \E address \in AddressesFor(r), size \in SizesFor(r), access \in ProtectInputs :
         \E o \in ReservationSetPermissions(regions, r, address, size, access) :
           Finish(o, Answered("ReservationSetPermissions", o), reservations)

ASR_DiscardSystemPages ==
  /\ Ready
  /\ \E r \in reservations :
       \E address \in AddressesFor(r), size \in SizesFor(r) :
         \E o \in ReservationDiscardSystemPages(regions, r, address, size) :
           Finish(o, Answered("ReservationDiscardSystemPages", o), reservations)

ASR_DecommitPages ==
  /\ Ready
  /\ \E r \in reservations :
       \E address \in AddressesFor(r), size \in SizesFor(r) :
         \E o \in ReservationDecommitPages(regions, r, address, size) :
           Finish(o, Called("ReservationDecommitPages", r.vmar, r.base, address,
                            size, o), reservations)

Next ==
  \/ Initialize
  \/ Return
  \/ OS_Allocate
  \/ OS_Free
  \/ OS_SetPermissions
  \/ OS_DiscardSystemPages
  \/ OS_DecommitPages
  \/ OS_CreateAddressSpaceReservation
  \/ OS_FreeAddressSpaceReservation
  \/ ASR_CreateSubReservation
  \/ ASR_FreeSubReservation
  \/ ASR_Allocate
  \/ ASR_Free
  \/ ASR_SetPermissions
  \/ ASR_DiscardSystemPages
  \/ ASR_DecommitPages

Spec == Init /\ [][Next]_vars

\* ------------------------------------------------ the resolver on its own

\* The alignments the resolver is tried on: 0, every power of two up to
\* 2^MaxBit, and sums of two powers of two.
AlignmentInputs ==
  {{}} \cup {{k} : k \in 0 .. MaxBit}
       \cup {{k, k + 1} : k \in 0 .. (MaxBit - 1)}
       \cup {{0, k} : k \in 1 .. MaxBit}

InitAlign ==
  /\ g_vmex_resource = ZX_HANDLE_INVALID
  /\ g_root_vmar_base = NULL
  /\ use_vmex_resource = FALSE
  /\ acquired = 0
  /\ regions = {}
  /\ reservations = {}
  /\ proc = "running"
  /\ last = NoCall
  /\ resolver \in [a : AlignmentInputs, b : AlignmentInputs, option_a : {0},
                   option_b : {0}, done : {FALSE}]

\* Two calls of GetAlignmentOptionFromAlignment.
Resolve ==
  /\ ~resolver.done
  /\ resolver' = [resolver EXCEPT
                    !.option_a = GetAlignmentOptionFromAlignment(resolver.a),
                    !.option_b = GetAlignmentOptionFromAlignment(resolver.b),
                    !.done = TRUE]
  /\ UNCHANGED <<g_vmex_resource, g_root_vmar_base, use_vmex_resource,
                 acquired, regions, reservations, proc, last>>

NextAlign == Resolve

SpecAlign == InitAlign /\ [][NextAlign]_vars

\* ------------------------------------------------ the properties

AllocateOps == {"Allocate", "ReservationAllocate"}
ReserveOps == {"CreateAddressSpaceReservation", "CreateSubReservation"}
PlacementOps == AllocateOps \cup ReserveOps
DecommitOps == {"DecommitPages", "ReservationDecommitPages"}

\* The last request of the call that just ended.
FinalRequest == last.reqs[Len(last.reqs)]

\* C1: in both primitives a placement request that fails under UseHint is
\* retried exactly once, without the "specific offset" option and with the
\* same size, alignment class and permission bits; under Fixed and Anywhere a
\* call that reaches placement issues exactly one request; a second request
\* follows only a failed first one under UseHint; and the call's result is
\* the last request's.
C1_SingleRetry ==
  last.op \in PlacementOps =>
    /\ Len(last.reqs) <= 2
    /\ (last.placement \in {"kFixed", "kAnywhere"} /\ last.reqs # <<>>)
         => Len(last.reqs) = 1
    /\ (last.reqs # <<>> /\ last.placement = "kUseHint"
          /\ last.reqs[1].status # "OK") => Len(last.reqs) = 2
    /\ Len(last.reqs) = 2 =>
         /\ last.placement = "kUseHint"
         /\ last.reqs[1].status # "OK"
         /\ last.reqs[1].specific
         /\ ~last.reqs[2].specific
         /\ last.reqs[2].offset = 0
         /\ last.reqs[2].call = last.reqs[1].call
         /\ last.reqs[2].size = last.reqs[1].size
         /\ last.reqs[2].align = last.reqs[1].align
         /\ last.reqs[2].perm = last.reqs[1].perm
    /\ (last.reqs # <<>> /\ last.outcome = "returned")
         => (last.ok <=> FinalRequest.status = "OK")

\* A reservation created by the retry after its hint could not be used.
C1_Witness ==
  /\ last.op = "CreateAddressSpaceReservation"
  /\ last.placement = "kUseHint"
  /\ Len(last.reqs) = 2
  /\ last.reqs[2].status = "OK"
  /\ last.ok

\* C2: AddressSpaceReservation::Allocate and CreateSubReservation, which place
\* at Fixed, put a mapping or a child at the requested address only: every
\* request that succeeds does so at that address, a successful call returns
\* it, and a failed one returns nothing.
C2_FixedAtAddress ==
  last.op \in {"ReservationAllocate", "CreateSubReservation"} =>
    /\ \A i \in 1 .. Len(last.reqs) :
         last.reqs[i].status = "OK" => last.reqs[i].addr = last.address
    /\ last.ok => /\ last.addr = last.address
                  /\ \E m \in regions : /\ m.parent = last.vmar
                                        /\ m.base = last.address
                                        /\ m.size = last.size
    /\ (last.outcome = "returned" /\ ~last.ok)
         => (last.addr = NULL /\ last.handle = 0)

\* A page mapped at Fixed behind the reservation's first page.
C2_Witness ==
  /\ last.op = "ReservationAllocate"
  /\ last.ok
  /\ last.address = last.base + PageUnits
  /\ last.addr = last.address

\* The address space of the root as it was before the OS::Allocate that just
\* returned.
RootBefore ==
  IF last.ok
  THEN regions \ {Mapping(ROOT, last.addr, last.size,
                          GetProtectionFromMemoryPermission(last.access))}
  ELSE regions

\* The hint of the OS::Allocate that just returned was occupied.
HintOccupied ==
  /\ last.op = "Allocate"
  /\ last.outcome = "returned"
  /\ last.address # NULL
  /\ \E m \in RootBefore :
       m.parent = ROOT /\ Overlaps(m.base, m.size, last.address, last.size)

\* C3 as stated: OS::Allocate with an occupied hint A that reaches placement
\* succeeds at an address other than A.
C3_AlwaysSucceeds ==
  (HintOccupied /\ last.reqs # <<>>) => (last.ok /\ last.addr # last.address)

\* C3, amended: OS::Allocate with an occupied hint A that reaches placement
\* has its request at A refused and issues the retry without a hint; it
\* returns the retry's address, which is not A, when the retry succeeds, and
\* nothing when the retry fails.
C3_HintFallback ==
  (HintOccupied /\ last.reqs # <<>>) =>
    /\ Len(last.reqs) = 2
    /\ last.reqs[1].specific
    /\ last.reqs[1].offset = last.address - RootVmarBase
    /\ last.reqs[1].status # "OK"
    /\ ~last.reqs[2].specific
    /\ last.ok <=> last.reqs[2].status = "OK"
    /\ last.ok => (last.addr = last.reqs[2].addr /\ last.addr # last.address)
    /\ ~last.ok => last.addr = NULL

\* An occupied hint, and a mapping made elsewhere by the retry.
C3_Witness ==
  /\ HintOccupied
  /\ Len(last.reqs) = 2
  /\ last.ok
  /\ last.addr # last.address

\* C4 as stated: every allocation attempts the executable upgrade, and with
\* the capability absent or the upgrade failing it returns nothing and issues
\* no placement request.
C4_AbsentCapabilityFails ==
  (last.op \in AllocateOps /\ last.created = "OK") =>
    /\ last.upgrade # "none"
    /\ (last.vmex = ZX_HANDLE_INVALID \/ last.upgrade = "ERR")
         => (~last.ok /\ last.reqs = <<>>)

\* C4, amended: every allocation whose memory object was created attempts the
\* upgrade, whatever the access level; when the upgrade call fails, with or
\* without the capability, the allocation returns nothing and issues no
\* placement request; it issues none either when the memory object could not
\* be created.
C4_UpgradeFailureFails ==
  last.op \in AllocateOps =>
    /\ last.created = "OK" => last.upgrade \in {"OK", "ERR"}
    /\ last.upgrade = "ERR" =>
         /\ last.outcome = "returned"
         /\ ~last.ok
         /\ last.addr = NULL
         /\ last.reqs = <<>>
    /\ last.created = "ERR" =>
         /\ last.upgrade = "none"
         /\ last.outcome = "returned"
         /\ ~last.ok
         /\ last.reqs = <<>>

\* A no-access allocation of the whole root refused because the upgrade
\* failed.
C4_Witness ==
  /\ last.op = "Allocate"
  /\ last.access = "kNoAccess"
  /\ last.size = RootSize
  /\ last.upgrade = "ERR"
  /\ ~last.ok

\* C5: a call of either primitive with an alignment that has no class stops
\* the process and never returns to its caller.
C5_InvalidAlignmentAborts ==
  (last.op \in PlacementOps
     /\ GetAlignmentOptionFromAlignment(last.alignment) = 0)
    => last.outcome = "aborted"

\* The steps of a DecommitPages that just returned.
DecommitSteps(before, call, after) ==
  /\ Len(call.reqs) \in {1, 2}
  /\ call.reqs[1].call = "protect"
  /\ call.reqs[1].perm = {}
  /\ call.reqs[1].offset = call.address
  /\ call.reqs[1].size = call.size
  /\ Len(call.reqs) = 2 <=> call.reqs[1].status = "OK"
  /\ Len(call.reqs) = 2 =>
       /\ call.reqs[2].call = "op_range"
       /\ call.reqs[2].offset = call.address
       /\ call.reqs[2].size = call.size
  /\ call.ok <=> (Len(call.reqs) = 2 /\ call.reqs[2].status = "OK")
  /\ call.reqs[1].status # "OK" => after = before
  /\ (Len(call.reqs) = 2 /\ call.reqs[2].status # "OK") =>
       \E o \in VmarProtect(before, call.vmar, {}, call.address, call.size) :
         o.status = "OK" /\ after = o.regs

\* C6: DecommitPages, of the root and of a reservation, first sets the range
\* to no-access and discards it only if that succeeded; it reports success
\* exactly when both steps succeeded; and when the discard fails after the
\* permission change, the address space is left as the permission change
\* made it: no-access, still committed, not rolled back.
C6_DecommitTwoSteps ==
  [][(last'.op \in DecommitOps /\ last'.outcome = "returned")
       => DecommitSteps(regions, last', regions')]_vars

\* A range left no-access and committed by a DecommitPages whose discard
\* failed.
C6_Witness ==
  /\ last.op \in DecommitOps
  /\ Len(last.reqs) = 2
  /\ last.reqs[1].status = "OK"
  /\ last.reqs[2].status = "ERR"
  /\ ~last.ok
  /\ \E m \in regions : /\ m.parent = last.vmar
                        /\ m.kind = "mapping"
                        /\ m.base = last.address
                        /\ m.perm = {}
                        /\ m.committed

\* An alignment of 2^k bytes with 10 <= k <= 32.
Supported(alignment) ==
  Cardinality(alignment) = 1 /\ \A k \in alignment : 10 <= k /\ k <= 32

\* C7: the resolver gives 2^k, 10 <= k <= 32, the class k << 24, which is not
\* the sentinel, and distinct alignments distinct classes; it gives every
\* other value, 0, 512 and 8 GiB among them, the sentinel 0.
C7_ResolverClasses ==
  resolver.done =>
    /\ Supported(resolver.a) =>
         /\ resolver.option_a # 0
         /\ resolver.option_a % 2 ^ ZX_VM_ALIGN_BASE = 0
         /\ resolver.a = {resolver.option_a \div 2 ^ ZX_VM_ALIGN_BASE}
    /\ ~Supported(resolver.a) => resolver.option_a = 0
    /\ (Supported(resolver.a) /\ Supported(resolver.b) /\ resolver.a # resolver.b)
         => resolver.option_a # resolver.option_b

\* 4 GiB resolved to its class and 8 GiB to the sentinel.
C7_Witness ==
  /\ resolver.done
  /\ resolver.a = {32}
  /\ resolver.b = {33}
  /\ resolver.option_a = 32 * 2 ^ ZX_VM_ALIGN_BASE
  /\ resolver.option_b = 0

\* C8: a CreateSubReservation whose address and size are not fully inside the
\* parent stops the process at the containment check: it issues no placement
\* request and returns no reservation.
C8_ContainmentChecked ==
  (last.op = "CreateSubReservation"
     /\ ~(last.address >= last.base
            /\ last.address + last.size <= last.base + last.limit))
    => /\ last.outcome = "aborted"
       /\ last.reqs = <<>>
       /\ ~last.ok
       /\ last.handle = 0

\* A sub-reservation asked to end one unit behind its parent.
C8_Witness ==
  /\ last.op = "CreateSubReservation"
  /\ last.address = last.base
  /\ last.size = last.limit + 1
  /\ last.outcome = "aborted"

\* C9: the capability and the root base are written by OS::Initialize only,
\* keep their value once they have one, whatever is called afterwards, and
\* the capability is acquired at most once.
C9_WriteOnce ==
  [][/\ (g_vmex_resource' # g_vmex_resource
           \/ g_root_vmar_base' # g_root_vmar_base)
          => last'.op = "Initialize"
     /\ g_root_vmar_base # NULL => g_root_vmar_base' = g_root_vmar_base
     /\ g_vmex_resource # ZX_HANDLE_INVALID
          => g_vmex_resource' = g_vmex_resource
     /\ acquired' <= 1]_vars

\* The capability held while a reservation's range has been decommitted.
C9_Witness ==
  /\ g_vmex_resource # ZX_HANDLE_INVALID
  /\ g_root_vmar_base = RootVmarBase
  /\ last.op = "ReservationDecommitPages"
  /\ last.ok

\* The region a successful call of a primitive is to have added.
Added(call) ==
  IF call.op \in AllocateOps
  THEN Mapping(call.vmar, call.addr, call.size,
               GetProtectionFromMemoryPermission(call.access))
  ELSE ChildVmar(call.vmar, call.addr, call.size, call.handle)

\* C10: a call of either primitive that returns a failure leaves the address
\* space as it was, and one that succeeds adds exactly one region, of the
\* requested size at the returned address, so never two under UseHint.
C10_OneRegionOrNone ==
  [][(last'.op \in PlacementOps /\ last'.outcome = "returned") =>
       /\ ~last'.ok => regions' = regions
       /\ last'.ok => /\ Added(last') \notin regions
                      /\ regions' = regions \cup {Added(last')}]_vars

\* A hinted allocation that failed at the hint and in the retry, with the
\* address space still holding what it held.
C10_Witness ==
  /\ last.op = "Allocate"
  /\ last.placement = "kUseHint"
  /\ Len(last.reqs) = 2
  /\ last.outcome = "returned"
  /\ ~last.ok
  /\ regions # {}

====
